---- MODULE Spec2Model ----
(***************************************************************************)
(* A model of scripts.js: the YouTube identifier extractor, the embed URL *)
(* builder, the iframe host manager (injectIframe / clearIframe) and the  *)
(* page behaviours run on DOMContentLoaded, with the pointer events that   *)
(* drive the hover previews.                                               *)
(*                                                                         *)
(* JavaScript strings are TLA+ strings; a character is a string of length  *)
(* one.  null / undefined is the value Null.                               *)
(***************************************************************************)
EXTENDS Integers, Sequences, FiniteSets, TLC

VARIABLES
    attrs,      \* the page markup: for every host element, its attributes
    kids,       \* for every host element, the sequence of its child nodes
    playing,    \* the preview cards whose classList holds "is-playing"
    listeners,  \* for every preview card, the registered pointer listeners
    vid,        \* the local fallback <video class="bgVideo__vid">
    footer,     \* the text of the element with id "year"
    nextId,     \* identity of the next element document.createElement makes
    pc,         \* "loading" before DOMContentLoaded, "ready" after
    call        \* the last direct call of a helper: its name, arguments, result

vars == <<attrs, kids, playing, listeners, vid, footer, nextId, pc, call>>

----------------------------------------------------------------------------
(* Bounds of the model. *)

\* The raw inputs of the pure helpers are concatenations of at most this
\* many pieces of Pieces.
MaxPieces == 3

----------------------------------------------------------------------------
(* Strings. *)

\* null and undefined: a value no input string equals.
Null == "<null>"

Char(s, i) == SubSeq(s, i, i)

\* String.prototype.startsWith
StartsWith(s, p) == Len(s) >= Len(p) /\ SubSeq(s, 1, Len(p)) = p

\* The white space String.prototype.trim removes (the part the inputs use).
WhiteSpace == {" ", "\t", "\n"}

RECURSIVE TrimStart(_)
TrimStart(s) ==
    IF s # "" /\ Char(s, 1) \in WhiteSpace THEN TrimStart(Tail(s)) ELSE s

RECURSIVE TrimEnd(_)
TrimEnd(s) ==
    IF s # "" /\ Char(s, Len(s)) \in WhiteSpace
    THEN TrimEnd(SubSeq(s, 1, Len(s) - 1))
    ELSE s

\* String.prototype.trim
Trim(s) == TrimEnd(TrimStart(s))

\* The character class [A-Za-z0-9_-].
IdChars ==
    { "A","B","C","D","E","F","G","H","I","J","K","L","M",
      "N","O","P","Q","R","S","T","U","V","W","X","Y","Z",
      "a","b","c","d","e","f","g","h","i","j","k","l","m",
      "n","o","p","q","r","s","t","u","v","w","x","y","z",
      "0","1","2","3","4","5","6","7","8","9","_","-" }

\* The {11} of both regular expressions.
IdLen == 11

\* s[i .. i+IdLen-1] exists and matches [A-Za-z0-9_-]{11}.
IdRun(s, i) ==
    /\ i + IdLen - 1 <= Len(s)
    /\ \A k \in i..(i + IdLen - 1) : Char(s, k) \in IdChars

\* /^[A-Za-z0-9_-]{11}$/.test(s)
IsBareId(s) == Len(s) = IdLen /\ IdRun(s, 1)

\* The alternatives of (?:v=|\/embed\/|\/shorts\/|youtu\.be\/), in order.
Markers == << "v=", "/embed/", "/shorts/", "youtu.be/" >>

MarkerAt(s, i, m) == i + Len(m) - 1 <= Len(s) /\ SubSeq(s, i, i + Len(m) - 1) = m

\* The capture group of the regular expression matched at position i of s,
\* or Null when it does not match there.
MatchAt(s, i) ==
    LET ms == { j \in 1..Len(Markers) :
                  MarkerAt(s, i, Markers[j]) /\ IdRun(s, i + Len(Markers[j])) }
    IN  IF ms = {} THEN Null
        ELSE LET j == CHOOSE j \in ms : \A k \in ms : j <= k
                 from == i + Len(Markers[j])
             IN  SubSeq(s, from, from + IdLen - 1)

\* String.prototype.match without the g flag: the leftmost match from i on.
RECURSIVE MatchFrom(_, _)
MatchFrom(s, i) ==
    IF i > Len(s) THEN Null
    ELSE IF MatchAt(s, i) # Null THEN MatchAt(s, i)
    ELSE MatchFrom(s, i + 1)

----------------------------------------------------------------------------
(* extractYTId *)

\* extractYTId without the .trim() of line 16.
extractYTId_NoTrim(value) ==
    IF value = Null \/ value = "" THEN ""
    ELSE IF IsBareId(value) THEN value
    ELSE LET match == MatchFrom(value, 1)
         IN  IF match # Null /\ match # "" THEN match ELSE value

extractYTId(value) ==
    IF value = Null \/ value = "" THEN ""
    ELSE LET trimmed == Trim(value)
         IN  IF IsBareId(trimmed) THEN trimmed
             ELSE LET match == MatchFrom(trimmed, 1)
                  IN  IF match # Null /\ match # "" THEN match ELSE trimmed

----------------------------------------------------------------------------
(* ytSrc *)

\* A JavaScript number or boolean, as an option value.
Num(n) == [num |-> n]
Bool(b) == [bool |-> b]

\* String(v) for a number or a boolean.
JSString(v) ==
    IF "num" \in DOMAIN v THEN ToString(v.num)
    ELSE IF v.bool THEN "true" ELSE "false"

\* An options object is a function from its own keys to values; a call
\* without options, and one with {}, pass the empty object.
NoOptions == << >>

\* Object.assign(target, source) for plain objects.
ObjectAssign(target, source) ==
    [k \in (DOMAIN target) \cup (DOMAIN source) |->
        IF k \in DOMAIN source THEN source[k] ELSE target[k]]

\* The bytes application/x-www-form-urlencoded leaves as they are.
FormSafe == IdChars \cup {"*", "."}

\* The serialisation of one character by URLSearchParams.toString().
FormEncodeChar(c) ==
    IF c \in FormSafe THEN c
    ELSE CASE c = " "  -> "+"
           [] c = "\t" -> "%09"
           [] c = "\n" -> "%0A"
           [] c = "&"  -> "%26"
           [] c = "/"  -> "%2F"
           [] c = ":"  -> "%3A"
           [] c = "="  -> "%3D"
           [] c = "?"  -> "%3F"

RECURSIVE FormEncode(_)
FormEncode(s) ==
    IF s = "" THEN "" ELSE FormEncodeChar(Char(s, 1)) \o FormEncode(Tail(s))

\* URLSearchParams.prototype.toString: name=value pairs joined by "&", in
\* insertion order.
RECURSIVE ParamsToString(_)
ParamsToString(ps) ==
    IF ps = << >> THEN ""
    ELSE FormEncode(Head(ps)[1]) \o "=" \o FormEncode(Head(ps)[2])
         \o (IF Len(ps) > 1 THEN "&" ELSE "")
         \o ParamsToString(Tail(ps))

Sentinel == "YOUR_"

EmbedBase == "https://www.youtube-nocookie.com/embed/"

\* The nine query parameters of lines 41-51, in insertion order.
EmbedParams(autoplay, id) ==
    << <<"autoplay", autoplay>>,
       <<"mute", "1">>,
       <<"controls", "0">>,
       <<"rel", "0">>,
       <<"modestbranding", "1">>,
       <<"playsinline", "1">>,
       <<"iv_load_policy", "3">>,
       <<"loop", "1">>,
       <<"playlist", id>> >>

\* ytSrc without the placeholder test of line 38.
ytSrc_NoSentinel(raw, options) ==
    LET opts == ObjectAssign([autoplay |-> Num(1)], options)
        id   == extractYTId(raw)
    IN  IF id = "" THEN ""
        ELSE EmbedBase \o id \o "?"
             \o ParamsToString(EmbedParams(JSString(opts.autoplay), id))

\* ytSrc that never reads the options: autoplay is always on.
ytSrc_AutoplayOn(raw, options) ==
    LET id == extractYTId(raw)
    IN  IF id = "" \/ StartsWith(id, Sentinel) THEN ""
        ELSE EmbedBase \o id \o "?" \o ParamsToString(EmbedParams("1", id))

ytSrc(raw, options) ==
    LET opts == ObjectAssign([autoplay |-> Num(1)], options)
        id   == extractYTId(raw)
    IN  IF id = "" \/ StartsWith(id, Sentinel) THEN ""
        ELSE LET base   == EmbedBase \o id
                 params == EmbedParams(JSString(opts.autoplay), id)
             IN  base \o "?" \o ParamsToString(params)

----------------------------------------------------------------------------
(* The inputs the helpers are called with. *)

Pieces ==
    { " ", "YOUR_", "v=", "/embed/", "/shorts/dQw4w9WgXcQ", "youtu.be/",
      "RAbnwLxwPNY", "abc", "https://", "https://x/watch?" }

RECURSIVE Concats(_)
Concats(n) ==
    IF n = 0 THEN {""}
    ELSE LET shorter == Concats(n - 1)
         IN  shorter \cup { p \o q : p \in shorter, q \in Pieces }

\* Every raw value: null, "" and the concatenations of the pieces.
Inputs == {Null} \cup Concats(MaxPieces)

\* The options the helpers are called with.
Configs ==
    { NoOptions, [autoplay |-> Num(0)], [autoplay |-> Num(1)],
      [autoplay |-> Bool(TRUE)] }

----------------------------------------------------------------------------
(* The page before any script ran: no host, no card, no fallback video. *)

\* tick flips at every call of injectIframe or clearIframe, so that a call
\* that changes nothing is still a step.
NoCall ==
    [fn |-> "none", host |-> Null, raw |-> Null, options |-> NoOptions,
     ret |-> Null, tick |-> FALSE]

EmptyPage ==
    /\ attrs = << >>
    /\ kids = << >>
    /\ playing = {}
    /\ listeners = << >>
    /\ vid = [present |-> FALSE, throws |-> FALSE, paused |-> FALSE, display |-> ""]
    /\ footer = ""
    /\ nextId = 1
    /\ pc = "loading"

pageVars == <<attrs, kids, playing, listeners, vid, footer, nextId, pc>>

----------------------------------------------------------------------------
(* The helpers called on their own: extractYTId(raw) and ytSrc(raw, opts), *)
(* for every raw value of Inputs and every options object of Configs.      *)

InitFn ==
    /\ EmptyPage
    /\ \E raw \in Inputs : call = [NoCall EXCEPT !.raw = raw]

CallExtract ==
    /\ call.fn = "none"
    /\ call' = [call EXCEPT !.fn = "extractYTId", !.ret = extractYTId(call.raw)]
    /\ UNCHANGED pageVars

CallYtSrc ==
    /\ call.fn = "none"
    /\ \E options \in Configs :
          call' = [call EXCEPT !.fn = "ytSrc", !.options = options,
                                !.ret = ytSrc(call.raw, options)]
    /\ UNCHANGED pageVars

NextFn == CallExtract \/ CallYtSrc

SpecFn == InitFn /\ [][NextFn]_vars

----------------------------------------------------------------------------
(* The document.  A page is the record of everything the script changes:   *)
(* the children of the hosts, the identity of the next created element,    *)
(* the cards marked is-playing, the registered listeners and the fallback  *)
(* video.  Hosts are separate containers, none inside another, as in the   *)
(* markup the comments of lines 104-106, 133-137 and 172-174 describe.     *)

Page == [kids |-> kids, nextId |-> nextId, playing |-> playing,
         listeners |-> listeners, vid |-> vid, footer |-> footer]

\* The page p becomes the state.
Becomes(p) ==
    /\ kids' = p.kids
    /\ nextId' = p.nextId
    /\ playing' = p.playing
    /\ listeners' = p.listeners
    /\ vid' = p.vid
    /\ footer' = p.footer

\* The identity of the n-th element document.createElement returns.
ElemId(n) == "e" \o ToString(n)

\* document.createElement("iframe") with the attributes of lines 69-72.
NewIframe(n) ==
    [tag |-> "iframe", id |-> ElemId(n), src |-> "", loads |-> 0,
     loading |-> "lazy",
     allow |-> "autoplay; encrypted-media; picture-in-picture",
     title |-> "YouTube video",
     referrerPolicy |-> "strict-origin-when-cross-origin"]

\* hostEl.querySelector("iframe") on the children ks of a host: the place of
\* the first iframe, 0 when there is none.
QueryIframe(ks) ==
    LET at == { i \in 1..Len(ks) : ks[i].tag = "iframe" }
    IN  IF at = {} THEN 0 ELSE CHOOSE i \in at : \A j \in at : i <= j

\* ks without its i-th node.
RemoveAt(ks, i) == SubSeq(ks, 1, i - 1) \o SubSeq(ks, i + 1, Len(ks))

\* injectIframe that appends a new iframe on every call.
injectIframe_AlwaysCreate(p, hostEl, raw, options) ==
    IF hostEl = Null \/ raw = Null \/ raw = "" THEN [page |-> p, ret |-> Null]
    ELSE LET src == ytSrc(raw, options)
         IN  IF src = "" THEN [page |-> p, ret |-> Null]
             ELSE LET p1 == [p EXCEPT !.kids[hostEl] = Append(@, NewIframe(p.nextId)),
                                      !.nextId = @ + 1]
                      i  == Len(p1.kids[hostEl])
                  IN  [page |-> [p1 EXCEPT !.kids[hostEl][i].src = src,
                                           !.kids[hostEl][i].loads = @ + 1],
                       ret  |-> p1.kids[hostEl][i].id]

\* injectIframe that assigns src only to the iframe it creates.
injectIframe_SrcOnCreate(p, hostEl, raw, options) ==
    IF hostEl = Null \/ raw = Null \/ raw = "" THEN [page |-> p, ret |-> Null]
    ELSE LET src == ytSrc(raw, options)
         IN  IF src = "" THEN [page |-> p, ret |-> Null]
             ELSE LET found == QueryIframe(p.kids[hostEl])
                  IN  IF found # 0
                      THEN [page |-> p, ret |-> p.kids[hostEl][found].id]
                      ELSE LET p1 == [p EXCEPT !.kids[hostEl] =
                                                   Append(@, NewIframe(p.nextId)),
                                               !.nextId = @ + 1]
                               i  == Len(p1.kids[hostEl])
                           IN  [page |-> [p1 EXCEPT !.kids[hostEl][i].src = src,
                                                    !.kids[hostEl][i].loads = @ + 1],
                                ret  |-> p1.kids[hostEl][i].id]

\* injectIframe without the test of line 64: an empty URL is assigned too.
injectIframe_NoSrcTest(p, hostEl, raw, options) ==
    IF hostEl = Null \/ raw = Null \/ raw = "" THEN [page |-> p, ret |-> Null]
    ELSE LET src   == ytSrc(raw, options)
             found == QueryIframe(p.kids[hostEl])
             p1    == IF found = 0
                      THEN [p EXCEPT !.kids[hostEl] = Append(@, NewIframe(p.nextId)),
                                     !.nextId = @ + 1]
                      ELSE p
             i     == IF found = 0 THEN Len(p1.kids[hostEl]) ELSE found
         IN  [page |-> [p1 EXCEPT !.kids[hostEl][i].src = src,
                                  !.kids[hostEl][i].loads = @ + 1],
              ret  |-> p1.kids[hostEl][i].id]

\* injectIframe(hostEl, raw, options) on the page p: the page it leaves and
\* the element it returns (its identity, or Null).  loads counts the
\* assignments to iframe.src: each one (re)starts the player.
injectIframe(p, hostEl, raw, options) ==
    IF hostEl = Null \/ raw = Null \/ raw = "" THEN [page |-> p, ret |-> Null]
    ELSE LET src == ytSrc(raw, options)
         IN  IF src = "" THEN [page |-> p, ret |-> Null]
             ELSE LET found == QueryIframe(p.kids[hostEl])
                      p1    == IF found = 0
                               THEN [p EXCEPT !.kids[hostEl] =
                                                  Append(@, NewIframe(p.nextId)),
                                              !.nextId = @ + 1]
                               ELSE p
                      i     == IF found = 0 THEN Len(p1.kids[hostEl]) ELSE found
                  IN  [page |-> [p1 EXCEPT !.kids[hostEl][i].src = src,
                                           !.kids[hostEl][i].loads = @ + 1],
                       ret  |-> p1.kids[hostEl][i].id]

\* clearIframe that removes the first child of the host, whatever it is.
clearIframe_FirstChild(p, hostEl) ==
    IF hostEl = Null \/ p.kids[hostEl] = << >> THEN p
    ELSE [p EXCEPT !.kids[hostEl] = Tail(@)]

\* clearIframe(hostEl) on the page p.
clearIframe(p, hostEl) ==
    LET iframe == IF hostEl # Null THEN QueryIframe(p.kids[hostEl]) ELSE 0
    IN  IF iframe # 0
        THEN [p EXCEPT !.kids[hostEl] = RemoveAt(@, iframe)]
        ELSE p

----------------------------------------------------------------------------
(* injectIframe and clearIframe called on their own, on two hosts that     *)
(* start with at most one iframe beside their other children.              *)

\* An iframe may be assigned its src at most this many times.
MaxLoads == 2

\* document.createElement may be called at most this many times.
MaxElements == 2

ApiHosts == { "hostA", "hostB" }

\* A child of host h that is no player, and an iframe the markup put there.
OtherChild(h) == [tag |-> "img", id |-> h \o ".img"]
MarkupIframe(h) ==
    [tag |-> "iframe", id |-> h \o ".iframe", src |-> "about:blank", loads |-> 0]

\* What the markup puts into host h: hostA holds an image and may hold one
\* iframe already, hostB holds one iframe and an image.
InitialKids(h) ==
    IF h = "hostA"
    THEN { << OtherChild(h) >>, << OtherChild(h), MarkupIframe(h) >> }
    ELSE { << MarkupIframe(h), OtherChild(h) >> }

\* The raw values injectIframe is called with.
ApiRaws == { Null, "", "RAbnwLxwPNY", "YOUR_VIDEO_ID", " " }

ApiConfigs == { NoOptions, [autoplay |-> Num(0)] }

\* The bounds of the model hold in page p.
WithinBounds(p) ==
    /\ p.nextId <= MaxElements + 1
    /\ \A h \in DOMAIN p.kids : \A i \in 1..Len(p.kids[h]) :
          p.kids[h][i].tag = "iframe" => p.kids[h][i].loads <= MaxLoads

InitApi ==
    /\ attrs = << >>
    /\ kids \in { k \in [ApiHosts -> UNION { InitialKids(h) : h \in ApiHosts }] :
                    \A h \in ApiHosts : k[h] \in InitialKids(h) }
    /\ playing = {}
    /\ listeners = << >>
    /\ vid = [present |-> FALSE, throws |-> FALSE, paused |-> FALSE, display |-> ""]
    /\ footer = ""
    /\ nextId = 1
    /\ pc = "ready"
    /\ call = NoCall

InjectCall ==
    \E hostEl \in ApiHosts \cup {Null}, raw \in ApiRaws, options \in ApiConfigs :
        LET r == injectIframe(Page, hostEl, raw, options)
        IN  /\ WithinBounds(r.page)
            /\ Becomes(r.page)
            /\ call' = [fn |-> "injectIframe", host |-> hostEl, raw |-> raw,
                        options |-> NoOptions, ret |-> r.ret,
                        tick |-> ~call.tick]
            /\ UNCHANGED <<attrs, pc>>

ClearCall ==
    \E hostEl \in ApiHosts \cup {Null} :
        /\ Becomes(clearIframe(Page, hostEl))
        /\ call' = [fn |-> "clearIframe", host |-> hostEl, raw |-> Null,
                    options |-> NoOptions, ret |-> Null, tick |-> ~call.tick]
        /\ UNCHANGED <<attrs, pc>>

NextApi == InjectCall \/ ClearCall

SpecApi == InitApi /\ [][NextApi]_vars

----------------------------------------------------------------------------
(* The page behaviours.  The markup attrs gives, for every host element of *)
(* the page, the value of its data-yt (data-yt-bg for the background host) *)
(* attribute and whether it carries data-autoplay.                         *)

\* The one .bgVideo__yt[data-yt-bg] element.
BgHost == "bg"

\* The .hoverPreview cards, in document order, and the .ytEmbed[data-yt]
\* slot of each.
Cards == << "card1", "card2" >>
CardSet == { Cards[i] : i \in 1..Len(Cards) }
SlotOf(preview) == IF preview = "card1" THEN "slot1" ELSE "slot2"

\* The .ytEmbed[data-yt] elements, in document order: a panel outside the
\* cards, then the slots of the cards.
Embeds == << "hero", "slot1", "slot2" >>

Hosts == { BgHost, "hero", "slot1", "slot2" }

\* new Date().getFullYear(), as text.
Year == "2026"

\* setupFooterYear
setupFooterYear(p) == [p EXCEPT !.footer = Year]

\* setupYoutubeBackground without the try/catch around pause(): the exception
\* leaves the function before the fallback video is hidden.
setupYoutubeBackground_NoCatch(p) ==
    LET bgHost == IF BgHost \in DOMAIN attrs THEN BgHost ELSE Null
    IN  IF bgHost = Null THEN p
        ELSE LET raw == attrs[bgHost].yt
             IN  IF raw = "" THEN p
                 ELSE LET r == injectIframe(p, bgHost, raw, [autoplay |-> Num(1)])
                          v == r.page.vid
                      IN  IF r.ret # Null /\ v.present /\ ~v.throws
                          THEN [r.page EXCEPT !.vid =
                                   [v EXCEPT !.paused = TRUE, !.display = "none"]]
                          ELSE r.page

\* setupYoutubeBackground without the test of the element injectIframe
\* returns: the fallback video is paused and hidden whenever the host has a
\* non-empty value.
setupYoutubeBackground_HideAlways(p) ==
    LET bgHost == IF BgHost \in DOMAIN attrs THEN BgHost ELSE Null
    IN  IF bgHost = Null THEN p
        ELSE LET raw == attrs[bgHost].yt
             IN  IF raw = "" THEN p
                 ELSE LET r == injectIframe(p, bgHost, raw, [autoplay |-> Num(1)])
                          v == r.page.vid
                      IN  IF v.present
                          THEN [r.page EXCEPT !.vid =
                                   [v EXCEPT !.paused = (v.paused \/ ~v.throws),
                                             !.display = "none"]]
                          ELSE r.page

\* setupYoutubeBackground
setupYoutubeBackground(p) ==
    LET bgHost == IF BgHost \in DOMAIN attrs THEN BgHost ELSE Null
    IN  IF bgHost = Null THEN p
        ELSE LET raw == attrs[bgHost].yt
             IN  IF raw = "" THEN p
                 ELSE LET r == injectIframe(p, bgHost, raw, [autoplay |-> Num(1)])
                          v == r.page.vid
                      IN  IF r.ret # Null /\ v.present
                          THEN [r.page EXCEPT !.vid =
                                   [v EXCEPT !.paused = (v.paused \/ ~v.throws),
                                             !.display = "none"]]
                          ELSE r.page

\* The body of the forEach of setupAutoplayEmbeds, over the hosts left.
RECURSIVE AutoplayEach(_, _)
AutoplayEach(p, hosts) ==
    IF hosts = << >> THEN p
    ELSE LET host == Head(hosts)
             raw  == attrs[host].yt
         IN  AutoplayEach(
                IF raw = "" \/ StartsWith(raw, Sentinel) THEN p
                ELSE injectIframe(p, host, raw, [autoplay |-> Num(1)]).page,
                Tail(hosts))

\* .ytEmbed[data-yt][data-autoplay]
IsAutoplayEmbed(h) == h \in DOMAIN attrs /\ attrs[h].autoplay

\* setupAutoplayEmbeds
setupAutoplayEmbeds(p) == AutoplayEach(p, SelectSeq(Embeds, IsAutoplayEmbed))

\* The listeners play and stop of one card; each closes over host and raw.
HoverListeners(host, raw) ==
    << [type |-> "pointerenter", fn |-> "play", host |-> host, raw |-> raw],
       [type |-> "pointerleave", fn |-> "stop", host |-> host, raw |-> raw] >>

\* The forEach of setupHoverPreviews without the skip of data-autoplay slots.
RECURSIVE HoverEach_NoAutoplaySkip(_, _)
HoverEach_NoAutoplaySkip(p, previews) ==
    IF previews = << >> THEN p
    ELSE LET preview == Head(previews)
             host    == IF SlotOf(preview) \in DOMAIN attrs
                        THEN SlotOf(preview) ELSE Null
             raw     == IF host = Null THEN Null ELSE attrs[host].yt
             skip    == \/ host = Null
                        \/ raw = ""
                        \/ StartsWith(raw, Sentinel)
         IN  HoverEach_NoAutoplaySkip(
                IF skip THEN p
                ELSE [p EXCEPT !.listeners[preview] = @ \o HoverListeners(host, raw)],
                Tail(previews))

\* The body of the forEach of setupHoverPreviews, over the cards left.
RECURSIVE HoverEach(_, _)
HoverEach(p, previews) ==
    IF previews = << >> THEN p
    ELSE LET preview == Head(previews)
             host    == IF SlotOf(preview) \in DOMAIN attrs
                        THEN SlotOf(preview) ELSE Null
             raw     == IF host = Null THEN Null ELSE attrs[host].yt
             skip    == \/ host = Null
                        \/ attrs[host].autoplay
                        \/ raw = ""
                        \/ StartsWith(raw, Sentinel)
         IN  HoverEach(
                IF skip THEN p
                ELSE [p EXCEPT !.listeners[preview] = @ \o HoverListeners(host, raw)],
                Tail(previews))

\* setupHoverPreviews
setupHoverPreviews(p) == HoverEach(p, Cards)

\* The listener play with classList.toggle in the place of classList.add.
play_Toggle(p, preview, l) ==
    injectIframe([p EXCEPT !.playing = IF preview \in @ THEN @ \ {preview}
                                       ELSE @ \cup {preview}],
                 l.host, l.raw, [autoplay |-> Num(1)]).page

\* The listener play of card preview, registered with host and raw.
play(p, preview, l) ==
    injectIframe([p EXCEPT !.playing = @ \cup {preview}],
                 l.host, l.raw, [autoplay |-> Num(1)]).page

\* The listener stop that takes the is-playing mark off every card.
stop_EveryCard(p, preview, l) ==
    clearIframe([p EXCEPT !.playing = {}], l.host)

\* The listener stop of card preview.
stop(p, preview, l) ==
    clearIframe([p EXCEPT !.playing = @ \ {preview}], l.host)

\* The dispatch of an event of the given type on card preview: its listeners
\* of that type run in the order of their registration.
RECURSIVE Dispatch(_, _, _, _)
Dispatch(p, preview, type, ls) ==
    IF ls = << >> THEN p
    ELSE LET l == Head(ls)
         IN  Dispatch(IF l.type # type THEN p
                      ELSE IF l.fn = "play" THEN play(p, preview, l)
                      ELSE stop(p, preview, l),
                      preview, type, Tail(ls))

----------------------------------------------------------------------------
(* The page: its markup, the DOMContentLoaded handler and the pointer      *)
(* events on the cards.                                                    *)

\* Elements may be created at most this many times on one page.
MaxPageElements == 4

\* The values of data-yt-bg on the background host.
BgRaws == { "", "RAbnwLxwPNY", "YOUR_VIDEO_ID", "YOUR_ID?v=RAbnwLxwPNY" }

\* The values of data-yt on the autoplay panel outside the cards.
PanelRaws == { "RAbnwLxwPNY", "YOUR_ID?v=RAbnwLxwPNY" }

\* The values of data-yt on the slot of the first card, which may carry
\* data-autoplay, and on the slot of the second card, which does not.
SlotRaws == { "", "RAbnwLxwPNY", "YOUR_ID?v=RAbnwLxwPNY", " ", " YOUR_VIDEO_ID" }
OtherSlotRaws == { "https://youtu.be/dQw4w9WgXcQ", " " }

\* The markups of host h; << >> stands for a page without the element.
Markups(h) ==
    {<< >>} \cup
    IF h = BgHost THEN { << [yt |-> v, autoplay |-> FALSE] >> : v \in BgRaws }
    ELSE IF h = "hero" THEN { << [yt |-> v, autoplay |-> TRUE] >> : v \in PanelRaws }
    ELSE IF h = "slot1"
         THEN { << [yt |-> v, autoplay |-> a] >> : v \in SlotRaws, a \in BOOLEAN }
    ELSE { << [yt |-> v, autoplay |-> FALSE] >> : v \in OtherSlotRaws }

\* The fallback video: absent, or playing; its pause() may throw.
Videos ==
    { [present |-> FALSE, throws |-> FALSE, paused |-> FALSE, display |-> ""],
      [present |-> TRUE, throws |-> FALSE, paused |-> FALSE, display |-> ""],
      [present |-> TRUE, throws |-> TRUE, paused |-> FALSE, display |-> ""] }

Init ==
    /\ \E m \in [Hosts -> UNION { Markups(h) : h \in Hosts }] :
          /\ \A h \in Hosts : m[h] \in Markups(h)
          /\ attrs = [h \in { g \in Hosts : m[g] # << >> } |-> m[h][1]]
    /\ kids = [h \in DOMAIN attrs |-> << >>]
    /\ playing = {}
    /\ listeners = [preview \in CardSet |-> << >>]
    /\ vid \in Videos
    /\ footer = ""
    /\ nextId = 1
    /\ pc = "loading"
    /\ call = NoCall

\* The handler with setupAutoplayEmbeds called before setupYoutubeBackground.
DOMContentLoaded_AutoplayFirst ==
    /\ pc = "loading"
    /\ pc' = "ready"
    /\ Becomes(setupHoverPreviews(setupYoutubeBackground(
                  setupAutoplayEmbeds(setupFooterYear(Page)))))
    /\ UNCHANGED <<attrs, call>>

\* The DOMContentLoaded handler.
DOMContentLoaded ==
    /\ pc = "loading"
    /\ pc' = "ready"
    /\ Becomes(setupHoverPreviews(setupAutoplayEmbeds(
                  setupYoutubeBackground(setupFooterYear(Page)))))
    /\ UNCHANGED <<attrs, call>>

\* The bounds of the model hold in page p.
PageWithinBounds(p) ==
    /\ p.nextId <= MaxPageElements + 1
    /\ \A h \in DOMAIN p.kids : \A i \in 1..Len(p.kids[h]) :
          p.kids[h][i].loads <= MaxLoads

\* A pointerenter event on a card.
PointerEnter(preview) ==
    LET p == Dispatch(Page, preview, "pointerenter", listeners[preview])
    IN  /\ PageWithinBounds(p)
        /\ Becomes(p)
        /\ UNCHANGED <<attrs, pc, call>>

\* A pointerleave event on a card.
PointerLeave(preview) ==
    /\ Becomes(Dispatch(Page, preview, "pointerleave", listeners[preview]))
    /\ UNCHANGED <<attrs, pc, call>>

Next ==
    \/ DOMContentLoaded
    \/ \E preview \in CardSet : PointerEnter(preview)
    \/ \E preview \in CardSet : PointerLeave(preview)

Spec == Init /\ [][Next]_vars

\* The page behaviours of the handler, called once more on the ready page:
\* setupYoutubeBackground(); setupAutoplayEmbeds(); setupHoverPreviews().
RunAgain ==
    /\ pc = "ready"
    /\ pc' = "again"
    /\ Becomes(setupHoverPreviews(setupAutoplayEmbeds(
                  setupYoutubeBackground(Page))))
    /\ UNCHANGED <<attrs, call>>

NextAgain ==
    \/ DOMContentLoaded
    \/ RunAgain
    \/ \E preview \in CardSet : PointerEnter(preview)
    \/ \E preview \in CardSet : PointerLeave(preview)

SpecAgain == Init /\ [][NextAgain]_vars

----------------------------------------------------------------------------
(* The vocabulary of the properties: what the specification calls a        *)
(* canonical identifier, a URL marker and the embed URL format.            *)

\* A raw value as text: a missing value reads as the empty text.
Text(raw) == IF raw = Null THEN "" ELSE raw

\* A canonical identifier: exactly 11 characters of [A-Za-z0-9_-].
Canonical(s) == Len(s) = IdLen /\ \A i \in 1..Len(s) : Char(s, i) \in IdChars

UrlMarkers == { "v=", "/embed/", "/shorts/", "youtu.be/" }

\* The places <<i, m>> of s where marker m begins at i and is immediately
\* followed by 11 identifier characters.
Occurrences(s) ==
    { o \in (1..Len(s)) \X UrlMarkers :
        /\ o[1] + Len(o[2]) + IdLen - 1 <= Len(s)
        /\ SubSeq(s, o[1], o[1] + Len(o[2]) - 1) = o[2]
        /\ Canonical(SubSeq(s, o[1] + Len(o[2]), o[1] + Len(o[2]) + IdLen - 1)) }

\* The 11 characters that follow the leftmost occurrence.
AfterLeftmost(s) ==
    LET o == CHOOSE o \in Occurrences(s) : \A q \in Occurrences(s) : o[1] <= q[1]
    IN  SubSeq(s, o[1] + Len(o[2]), o[1] + Len(o[2]) + IdLen - 1)

\* The embed URL of section 6 around the path segment id, with the playlist
\* value pl.
UrlAround(id, a, pl) ==
    "https://www.youtube-nocookie.com/embed/" \o id \o "?autoplay=" \o a
    \o "&mute=1&controls=0&rel=0&modestbranding=1&playsinline=1"
    \o "&iv_load_policy=3&loop=1&playlist=" \o pl

ExpectedUrl(id, a) == UrlAround(id, a, id)

\* The text of the autoplay option of a configuration (absent means 1).
AutoplayText(options) ==
    IF options = NoOptions THEN "1"
    ELSE IF options = [autoplay |-> Num(0)] THEN "0"
    ELSE IF options = [autoplay |-> Num(1)] THEN "1"
    ELSE "true"

\* u is a well-formed embed URL whose path segment and playlist value are
\* one canonical identifier.
CanonicalEmbedUrl(u) ==
    /\ Len(u) >= Len(EmbedBase) + IdLen
    /\ LET id == SubSeq(u, Len(EmbedBase) + 1, Len(EmbedBase) + IdLen)
       IN  /\ Canonical(id)
           /\ \E a \in {"0", "1", "true", "false"} : u = ExpectedUrl(id, a)

\* The players among the children ks of a host, and the other children.
PlayerCount(ks) == Cardinality({ i \in 1..Len(ks) : ks[i].tag = "iframe" })
IsOther(n) == n.tag # "iframe"
NonPlayers(ks) == SelectSeq(ks, IsOther)

\* The player of a host that holds exactly one.
ThePlayer(ks) == ks[CHOOSE i \in 1..Len(ks) : ks[i].tag = "iframe"]

----------------------------------------------------------------------------
(* C4 - C7: the pure helpers, under SpecFn. *)

\* C4: for every raw input that starts with YOUR_ (whatever follows) and
\* every config, ytSrc returns the empty string.
C4_SentinelInputYieldsEmpty ==
    (call.fn = "ytSrc" /\ StartsWith(Text(call.raw), "YOUR_")) => call.ret = ""

\* C5, as stated: ytSrc returns the empty string or a well-formed embed URL
\* around one canonical identifier; unrecognised text never reaches the URL.
C5_OnlyCanonicalUrls ==
    call.fn = "ytSrc" => (call.ret = "" \/ CanonicalEmbedUrl(call.ret))

\* C5, amended: ytSrc returns the empty string or the embed URL whose path
\* segment is the extracted text and whose playlist value is that text
\* form-encoded.  When the trimmed input is a canonical identifier, or the
\* input holds a marker followed by 11 identifier characters, both are that
\* canonical identifier (and the result is empty when it starts with YOUR_).
\* Otherwise the result is empty only when the trimmed input is empty or
\* starts with YOUR_, and else a URL built around the trimmed input.
C5_UrlAroundExtractedText ==
    call.fn = "ytSrc" =>
        LET raw == Text(call.raw)
            t   == Trim(raw)
            a   == AutoplayText(call.options)
        IN  IF Canonical(t) \/ Occurrences(raw) # {}
            THEN LET id == IF Canonical(t) THEN t ELSE AfterLeftmost(raw)
                 IN  IF StartsWith(id, "YOUR_")
                     THEN call.ret = ""
                     ELSE call.ret = ExpectedUrl(id, a) /\ CanonicalEmbedUrl(call.ret)
            ELSE IF t = "" \/ StartsWith(t, "YOUR_")
                 THEN call.ret = ""
                 ELSE /\ call.ret = UrlAround(t, a, FormEncode(t))
                      /\ ~CanonicalEmbedUrl(call.ret)

\* An input without a canonical identifier reached the URL: the path holds
\* the text as it is, the playlist value holds it form-encoded.
C5_Witness ==
    /\ call.fn = "ytSrc"
    /\ call.raw = "abc" \o " " \o "abc"
    /\ call.options = NoOptions
    /\ call.ret = UrlAround("abc abc", "1", "abc+abc")

\* C6, as stated: for every canonical identifier and every config whose
\* autoplay is 0, 1 or absent, ytSrc returns exactly the URL of section 6.
C6_ExactUrlForEveryCanonicalId ==
    ( /\ call.fn = "ytSrc"
      /\ Canonical(Text(call.raw))
      /\ call.options \in {NoOptions, [autoplay |-> Num(0)], [autoplay |-> Num(1)]} )
    => call.ret = ExpectedUrl(call.raw, AutoplayText(call.options))

\* C6, amended: the same, for every canonical identifier that does not start
\* with YOUR_.
C6_ExactUrlForConfiguredId ==
    ( /\ call.fn = "ytSrc"
      /\ Canonical(Text(call.raw))
      /\ ~StartsWith(call.raw, "YOUR_")
      /\ call.options \in {NoOptions, [autoplay |-> Num(0)], [autoplay |-> Num(1)]} )
    => call.ret = ExpectedUrl(call.raw, AutoplayText(call.options))

\* The example of section 8: buildUrl("RAbnwLxwPNY", {autoplay: 0}).
C6_Witness ==
    /\ call.fn = "ytSrc"
    /\ call.raw = "RAbnwLxwPNY"
    /\ call.options = [autoplay |-> Num(0)]
    /\ call.ret = "https://www.youtube-nocookie.com/embed/RAbnwLxwPNY?autoplay=0&mute=1&controls=0&rel=0&modestbranding=1&playsinline=1&iv_load_policy=3&loop=1&playlist=RAbnwLxwPNY"

\* C7: extractYTId returns the trimmed input when that is a canonical
\* identifier; otherwise the 11 characters after the leftmost marker that is
\* immediately followed by 11 identifier characters, when the input holds
\* one; otherwise the trimmed input; and "" for an empty or missing input.
C7_ExtractCases ==
    call.fn = "extractYTId" =>
        LET raw == Text(call.raw)
            t   == Trim(raw)
        IN  call.ret = IF Canonical(t) THEN t
                       ELSE IF Occurrences(raw) # {} THEN AfterLeftmost(raw)
                       ELSE t

\* Two occurrences in one input, behind leading white space: the leftmost
\* one is returned.
C7_Witness ==
    /\ call.fn = "extractYTId"
    /\ call.raw = "v=" \o "RAbnwLxwPNY" \o "/shorts/dQw4w9WgXcQ"
    /\ Cardinality(Occurrences(call.raw)) = 2
    /\ call.ret = "RAbnwLxwPNY"

----------------------------------------------------------------------------
(* C2, C8 - C10: injectIframe and clearIframe, under SpecApi.  Every step  *)
(* of SpecApi is one call, and call' names it.                             *)

\* C2: a host that starts with at most one player holds at most one after
\* any sequence of inject and clear calls, and an inject that embeds returns
\* the one player of its host.
C2_AtMostOnePlayer ==
    /\ \A h \in DOMAIN kids : PlayerCount(kids[h]) <= 1
    /\ (call.fn = "injectIframe" /\ call.ret # Null) =>
          /\ PlayerCount(kids[call.host]) = 1
          /\ ThePlayer(kids[call.host]).id = call.ret

\* The iframe the markup put into hostA was reused by two injects.
C2_Witness ==
    /\ call.fn = "injectIframe"
    /\ call.host = "hostA"
    /\ call.ret = MarkupIframe("hostA").id
    /\ PlayerCount(kids["hostA"]) = 1
    /\ ThePlayer(kids["hostA"]).loads = 2

\* C8: an inject that follows an embedding inject on the same host with the
\* same reference leaves exactly one player, returns the same element, and
\* assigns its src once more, to the URL built from the reference.
C8_InjectTwice ==
    [][ ( /\ call.fn = "injectIframe"
          /\ call.ret # Null
          /\ call'.fn = "injectIframe"
          /\ call'.host = call.host
          /\ call'.raw = call.raw )
        => /\ PlayerCount(kids'[call.host]) = 1
           /\ call'.ret = call.ret
           /\ ThePlayer(kids'[call.host]).id = call.ret
           /\ ThePlayer(kids'[call.host]).loads = ThePlayer(kids[call.host]).loads + 1
           /\ \E a \in {"0", "1"} :
                 ThePlayer(kids'[call.host]).src = ExpectedUrl(Trim(call.raw), a)
      ]_vars

\* The element an inject created in hostB, after its first iframe was
\* cleared, was assigned its src twice.
C8_Witness ==
    /\ call.fn = "injectIframe"
    /\ call.host = "hostB"
    /\ call.raw = "RAbnwLxwPNY"
    /\ call.ret = "e1"
    /\ PlayerCount(kids["hostB"]) = 1
    /\ ThePlayer(kids["hostB"]).id = "e1"
    /\ ThePlayer(kids["hostB"]).loads = 2

\* C9: inject with an absent host, an empty or missing raw value, or a raw
\* value for which the built URL is empty, returns null and changes nothing:
\* no element is created, and a player of the host keeps its src.
C9_InjectNoOp ==
    [][ ( /\ call'.fn = "injectIframe"
          /\ \/ call'.host = Null
             \/ call'.raw = Null
             \/ call'.raw = ""
             \/ \A options \in ApiConfigs : ytSrc(call'.raw, options) = "" )
        => /\ call'.ret = Null
           /\ kids' = kids
           /\ nextId' = nextId
      ]_vars

\* A white-space reference was injected into hostA while it held a player
\* with a built URL: the player is still there.
C9_Witness ==
    /\ call.fn = "injectIframe"
    /\ call.host = "hostA"
    /\ call.raw = " "
    /\ call.ret = Null
    /\ PlayerCount(kids["hostA"]) = 1
    /\ ThePlayer(kids["hostA"]).src = ExpectedUrl("RAbnwLxwPNY", "0")

\* C10: clear(host) removes the one player of the host and changes nothing
\* else: the other children of the host, the children of every other host
\* and the rest of the page stay; on an absent host or a host without a
\* player nothing changes.
C10_ClearFrame ==
    [][ call'.fn = "clearIframe"
        => /\ DOMAIN kids' = DOMAIN kids
           /\ \A g \in DOMAIN kids : g # call'.host => kids'[g] = kids[g]
           /\ <<attrs', playing', listeners', vid', footer', nextId', pc'>>
                 = <<attrs, playing, listeners, vid, footer, nextId, pc>>
           /\ call'.host # Null =>
                 /\ NonPlayers(kids'[call'.host]) = NonPlayers(kids[call'.host])
                 /\ PlayerCount(kids[call'.host]) = 1
                       => PlayerCount(kids'[call'.host]) = 0
                 /\ PlayerCount(kids[call'.host]) = 0
                       => kids'[call'.host] = kids[call'.host]
      ]_vars

\* The element created in hostA is gone after clear(hostA); the image of
\* hostA and the untouched children of hostB are still there.
C10_Witness ==
    /\ call.fn = "clearIframe"
    /\ call.host = "hostA"
    /\ nextId = 2
    /\ kids["hostA"] = << OtherChild("hostA") >>
    /\ kids["hostB"] = << MarkupIframe("hostB"), OtherChild("hostB") >>

----------------------------------------------------------------------------
(* C1, C3: the page, under Spec. *)

\* The card receives hover wiring, as C1 states it: its slot exists, has no
\* data-autoplay, and its data-yt is non-empty and does not start with YOUR_.
HoverWired(preview) ==
    /\ SlotOf(preview) \in DOMAIN attrs
    /\ ~attrs[SlotOf(preview)].autoplay
    /\ attrs[SlotOf(preview)].yt # ""
    /\ ~StartsWith(attrs[SlotOf(preview)].yt, "YOUR_")

\* C1: after the bootstrap, every pointer-enter on a hover-wired card leaves
\* exactly one player in its slot, and every pointer-leave leaves none.
C1_HoverCycle ==
    [][ \A preview \in CardSet :
          (pc = "ready" /\ HoverWired(preview)) =>
             /\ PointerEnter(preview) => PlayerCount(kids'[SlotOf(preview)]) = 1
             /\ PointerLeave(preview) => PlayerCount(kids'[SlotOf(preview)]) = 0
      ]_vars

\* C3: no host whose data-yt or data-yt-bg value starts with YOUR_ ever
\* holds a player.
C3_NoPlaceholderPlayer ==
    \A h \in DOMAIN attrs :
        StartsWith(attrs[h].yt, "YOUR_") => PlayerCount(kids[h]) = 0

----------------------------------------------------------------------------
(* C11: cards whose slot carries data-autoplay, under Spec. *)

\* The slot of the card exists and carries data-autoplay.
AutoplayCard(preview) ==
    /\ SlotOf(preview) \in DOMAIN attrs
    /\ attrs[SlotOf(preview)].autoplay

\* C11: after the bootstrap, a pointer-enter or pointer-leave on a card whose
\* slot carries data-autoplay changes neither the playing mark of the card
\* nor the children of its slot: the player injected at load stays, with its
\* identity and its target URL, and none is added.
C11_AutoplayCardNotWired ==
    [][ \A preview \in CardSet :
          (pc = "ready" /\ AutoplayCard(preview)
              /\ (PointerEnter(preview) \/ PointerLeave(preview)))
          => /\ (preview \in playing') = (preview \in playing)
             /\ kids'[SlotOf(preview)] = kids[SlotOf(preview)]
             /\ listeners'[preview] = << >>
      ]_vars

\* The first card has an autoplay slot that got its player at load; pointer
\* events have been delivered since (the second card is playing), the first
\* card is unmarked and its slot holds the element created at load.
C11_Witness ==
    /\ pc = "ready"
    /\ AutoplayCard("card1")
    /\ "card2" \in playing
    /\ "card1" \notin playing
    /\ PlayerCount(kids["slot1"]) = 1
    /\ ThePlayer(kids["slot1"]).src = ExpectedUrl("RAbnwLxwPNY", "1")
    /\ ThePlayer(kids["slot1"]).loads = 1

----------------------------------------------------------------------------
(* C12: the page behaviours run a second time, under SpecAgain. *)

\* The listeners a single run of setupHoverPreviews registers on a card.
OnceListeners(preview) ==
    setupHoverPreviews([Page EXCEPT !.listeners = [c \in CardSet |-> << >>]])
        .listeners[preview]

\* What C12 compares of page p: for every host its children with their
\* identities and target URLs (not the number of times a src was assigned),
\* the playing marks, the fallback video and the count of elements created.
Unloaded(n) == IF n.tag = "iframe" THEN [n EXCEPT !.loads = 0] ELSE n
Rest(p) ==
    [kids    |-> [h \in DOMAIN p.kids |->
                     [i \in 1..Len(p.kids[h]) |-> Unloaded(p.kids[h][i])]],
     playing |-> p.playing, vid |-> p.vid, nextId |-> p.nextId]

\* The page after the step.
PageAfter ==
    [kids |-> kids', nextId |-> nextId', playing |-> playing',
     listeners |-> listeners', vid |-> vid', footer |-> footer']

\* C12: the second run of the behaviours leaves every host with the players,
\* target URLs and playing marks of the first run, and every pointer event
\* after it produces, from the same page, the players and marks that the
\* listeners of a single run produce, although each wired card then has its
\* two listeners twice.
C12_SecondRunSameState ==
    [][ /\ RunAgain => Rest(PageAfter) = Rest(Page)
        /\ \A preview \in CardSet :
              pc = "again" =>
                /\ PointerEnter(preview) =>
                      Rest(PageAfter) = Rest(Dispatch(Page, preview, "pointerenter",
                                                      OnceListeners(preview)))
                /\ PointerLeave(preview) =>
                      Rest(PageAfter) = Rest(Dispatch(Page, preview, "pointerleave",
                                                      OnceListeners(preview)))
      ]_vars

\* After the second run the first card has four listeners, and a
\* pointer-enter has left it marked with one player, whose src each of the
\* two play listeners assigned; the background host and the autoplay panel hold one player each.
C12_Witness ==
    /\ pc = "again"
    /\ Len(listeners["card1"]) = 4
    /\ "card1" \in playing
    /\ PlayerCount(kids["slot1"]) = 1
    /\ ThePlayer(kids["slot1"]).loads = 2
    /\ BgHost \in DOMAIN kids /\ PlayerCount(kids[BgHost]) = 1
    /\ "hero" \in DOMAIN kids /\ PlayerCount(kids["hero"]) = 1
    /\ vid.display = "none"

----------------------------------------------------------------------------
(* C13: pause() of the fallback video raises, under Spec. *)

\* The autoplay hosts for which setupAutoplayEmbeds builds a URL.
AutoplayEmbeddable(h) ==
    /\ h \in DOMAIN attrs
    /\ attrs[h].autoplay
    /\ attrs[h].yt # ""
    /\ ~StartsWith(attrs[h].yt, "YOUR_")
    /\ ytSrc(attrs[h].yt, [autoplay |-> Num(1)]) # ""

\* C13: when the bootstrap injects the background player and pause() of the
\* fallback video raises, the video is still hidden, and the bootstrap
\* completes: every autoplay panel with an embeddable value holds its
\* player and every hover-wired card has its two listeners.
C13_PauseFailureSwallowed ==
    [][ ( /\ DOMContentLoaded
          /\ vid.present /\ vid.throws
          /\ BgHost \in DOMAIN kids
          /\ PlayerCount(kids'[BgHost]) = 1 )
        => /\ vid'.display = "none"
           /\ ~vid'.paused
           /\ pc' = "ready"
           /\ \A h \in Hosts : AutoplayEmbeddable(h) =>
                  /\ PlayerCount(kids'[h]) = 1
                  /\ ThePlayer(kids'[h]).src = ytSrc(attrs[h].yt, [autoplay |-> Num(1)])
           /\ \A preview \in CardSet : HoverWired(preview) =>
                  listeners'[preview] =
                     HoverListeners(SlotOf(preview), attrs[SlotOf(preview)].yt)
      ]_vars

\* pause() raised during the bootstrap: the video is hidden and not paused,
\* the background host and the autoplay panel hold their players, and the
\* second card, wired after that, has played.
C13_Witness ==
    /\ pc = "ready"
    /\ vid.present /\ vid.throws
    /\ vid.display = "none" /\ ~vid.paused
    /\ BgHost \in DOMAIN kids /\ PlayerCount(kids[BgHost]) = 1
    /\ "hero" \in DOMAIN kids /\ PlayerCount(kids["hero"]) = 1
    /\ Len(listeners["card2"]) = 2
    /\ "card2" \in playing /\ PlayerCount(kids["slot2"]) = 1

----------------------------------------------------------------------------
(* C14: the order of the bootstrap and of the hover transitions, under     *)
(* Spec.                                                                   *)

\* Host h holds a player after the step; 1 if it does, else 0.
LoadedAfter(h) == h \in DOMAIN kids' /\ PlayerCount(kids'[h]) = 1
CountAfter(h) == IF LoadedAfter(h) THEN 1 ELSE 0

\* The bootstrap created its players in the order background host, then the
\* autoplay panels in document order: the elements are numbered by creation.
CreatedInOrder ==
    /\ LoadedAfter(BgHost) => ThePlayer(kids'[BgHost]).id = ElemId(1)
    /\ LoadedAfter("hero") =>
          ThePlayer(kids'["hero"]).id = ElemId(1 + CountAfter(BgHost))
    /\ LoadedAfter("slot1") =>
          ThePlayer(kids'["slot1"]).id =
             ElemId(1 + CountAfter(BgHost) + CountAfter("hero"))
    /\ nextId' = 1 + CountAfter(BgHost) + CountAfter("hero") + CountAfter("slot1")
    /\ \A preview \in CardSet : Len(listeners'[preview]) \in {0, 2}

\* C14: the bootstrap runs once, background before autoplay panels, with
\* the hover wiring in the same step (no card has listeners before, each
\* wired card has its two after); before it no pointer event changes a
\* card; after it nothing re-runs the behaviours, and each pointer event on
\* a wired card applies exactly one transition (play on enter, stop on
\* leave) to the page as the earlier events left it.
C14_BootstrapOnceEventsInOrder ==
    [][ /\ pc = "loading" =>
              /\ \A preview \in CardSet : listeners[preview] = << >>
              /\ pc' = "loading" => (playing' = playing /\ kids' = kids)
              /\ pc' # "loading" => (pc' = "ready" /\ CreatedInOrder)
        /\ pc = "ready" =>
              /\ pc' = "ready"
              /\ <<listeners', vid', footer'>> = <<listeners, vid, footer>>
              /\ \A h \in DOMAIN kids :
                    (h = BgHost \/ attrs[h].autoplay) => kids'[h] = kids[h]
              /\ \A preview \in CardSet :
                    listeners[preview] # << >> =>
                       /\ PointerEnter(preview) =>
                             PageAfter = play(Page, preview, listeners[preview][1])
                       /\ PointerLeave(preview) =>
                             PageAfter = stop(Page, preview, listeners[preview][2])
      ]_vars

\* The background player was created first and the panel's second; the
\* first card then got two pointer-enters in a row, each of which assigned
\* the src of its one player, created third.
C14_Witness ==
    /\ pc = "ready"
    /\ BgHost \in DOMAIN kids /\ PlayerCount(kids[BgHost]) = 1
    /\ ThePlayer(kids[BgHost]).id = ElemId(1)
    /\ "hero" \in DOMAIN kids /\ PlayerCount(kids["hero"]) = 1
    /\ ThePlayer(kids["hero"]).id = ElemId(2)
    /\ "card1" \in playing
    /\ PlayerCount(kids["slot1"]) = 1
    /\ ThePlayer(kids["slot1"]).id = ElemId(3)
    /\ ThePlayer(kids["slot1"]).loads = 2

----------------------------------------------------------------------------
(* C15: the cards are independent, under Spec. *)

\* C15: a pointer-enter or pointer-leave on one card leaves as they are the
\* playing mark of every other card and the children (the player, its
\* identity and target URL, the other elements) of every host but the
\* card's own slot: the slots of the other cards, the autoplay panels and
\* the background host; the listeners of the other cards stay too.
C15_CardsIndependent ==
    [][ \A preview \in CardSet :
          (PointerEnter(preview) \/ PointerLeave(preview)) =>
             /\ \A other \in CardSet \ {preview} :
                   /\ (other \in playing') = (other \in playing)
                   /\ listeners'[other] = listeners[other]
             /\ DOMAIN kids' = DOMAIN kids
             /\ \A h \in DOMAIN kids \ {SlotOf(preview)} : kids'[h] = kids[h]
      ]_vars

\* Both cards are wired; the first was entered and left again while the
\* second went on playing: the second keeps its mark and its player, the
\* panel and the background host keep theirs.
C15_Witness ==
    /\ pc = "ready"
    /\ listeners["card1"] # << >>
    /\ "card1" \notin playing
    /\ PlayerCount(kids["slot1"]) = 0
    /\ nextId = 5
    /\ "card2" \in playing
    /\ PlayerCount(kids["slot2"]) = 1
    /\ ThePlayer(kids["slot2"]).id = ElemId(3)
    /\ "hero" \in DOMAIN kids /\ PlayerCount(kids["hero"]) = 1
    /\ BgHost \in DOMAIN kids /\ PlayerCount(kids[BgHost]) = 1

----------------------------------------------------------------------------
(* C16: the playing mark and the player of a wired card, under Spec. *)

\* C16: after the bootstrap, a card that received hover wiring carries the
\* is-playing mark if and only if its slot holds a player, whatever data-yt
\* value passed the wiring check.
C16_MarkIffPlayer ==
    \A preview \in CardSet :
        (pc = "ready" /\ listeners[preview] # << >>) =>
            (preview \in playing <=> PlayerCount(kids[SlotOf(preview)]) = 1)

----------------------------------------------------------------------------
(* C17: the fallback video and the background player, under Spec. *)

\* The background host holds a player.
BgLoaded == BgHost \in DOMAIN kids /\ PlayerCount(kids[BgHost]) = 1

\* The background host is absent, or its data-yt-bg is empty, or no embed
\* URL is built from it.
NoBgUrl ==
    \/ BgHost \notin DOMAIN attrs
    \/ attrs[BgHost].yt = ""
    \/ ytSrc(attrs[BgHost].yt, [autoplay |-> Num(1)]) = ""

\* C17: after the bootstrap, a fallback video that exists is hidden if and
\* only if the background host holds a player; with the host absent, its
\* value empty or no embed URL built from it, the host holds no player and
\* the video is neither paused nor hidden.
C17_FallbackHiddenIffBgPlayer ==
    (pc = "ready" /\ vid.present) =>
        /\ vid.display = "none" <=> BgLoaded
        /\ vid.display \in {"", "none"}
        /\ NoBgUrl => (~BgLoaded /\ ~vid.paused /\ vid.display = "")

\* The background host carries a value from which no URL is built: after the
\* bootstrap and a pointer-enter on a card the host is empty and the video
\* plays on, visible.
C17_Witness ==
    /\ pc = "ready"
    /\ vid.present
    /\ BgHost \in DOMAIN attrs /\ attrs[BgHost].yt = "YOUR_VIDEO_ID"
    /\ kids[BgHost] = << >>
    /\ vid.display = "" /\ ~vid.paused
    /\ "card2" \in playing /\ PlayerCount(kids["slot2"]) = 1

====
